---- MODULE Spec2Model ----
(***************************************************************************)
(* Model of the upload gateway of whaleLogic/gcloud-buckets-api:           *)
(*   handlers/upload.go  HandleUpload, isAllowedFileType, send*Response    *)
(*   storage/gcs.go      Client.UploadFile                                 *)
(* Strings are sequences: file names, keys and URLs are sequences of       *)
(* one-character strings; messages are sequences of message pieces.        *)
(***************************************************************************)
EXTENDS Integers, Sequences, FiniteSets, TLC

\* ------------------------------------------------------------------ bounds
NumReqs == 2
MaxNameLen == 4

Reqs == 1..NumReqs

\* ------------------------------------------------------- program constants
maxSize == 104857600

StatusOK == 200
StatusBadRequest == 400
StatusMethodNotAllowed == 405
StatusInternalServerError == 500

MethodOptions == "OPTIONS"
MethodPost == "POST"

\* the allow-list of isAllowedFileType, in source order
allowedExtensions ==
  << <<".","p","d","f">>, <<".","d","o","c">>, <<".","d","o","c","x">>,
     <<".","t","x","t">>, <<".","r","t","f">>,
     <<".","j","p","g">>, <<".","j","p","e","g">>, <<".","p","n","g">>,
     <<".","g","i","f">>, <<".","b","m","p">>,
     <<".","z","i","p">>, <<".","r","a","r">>, <<".","t","a","r">>,
     <<".","g","z">>,
     <<".","c","s","v">>, <<".","x","l","s">>, <<".","x","l","s","x">>,
     <<".","p","p","t">>, <<".","p","p","t","x">> >>

\* ------------------------------------------------------- string functions
UpperChars ==
  <<"A","B","C","D","E","F","G","H","I","J","K","L","M",
    "N","O","P","Q","R","S","T","U","V","W","X","Y","Z">>
LowerChars ==
  <<"a","b","c","d","e","f","g","h","i","j","k","l","m",
    "n","o","p","q","r","s","t","u","v","w","x","y","z">>

\* strings.ToLower on one character
LowerChar(c) ==
  IF \E i \in 1..Len(UpperChars) : UpperChars[i] = c
  THEN LowerChars[CHOOSE i \in 1..Len(UpperChars) : UpperChars[i] = c]
  ELSE c

\* strings.ToLower
ToLower(s) == [i \in 1..Len(s) |-> LowerChar(s[i])]

\* os.IsPathSeparator on the build's platform (linux)
IsPathSeparator(c) == c = "/"

\* filepath.Ext: scan from the end, stop at a path separator, return the
\* suffix that starts at the first dot met; "" when there is none.
RECURSIVE ExtScan(_, _)
ExtScan(path, i) ==
  IF i < 1 \/ IsPathSeparator(path[i]) THEN <<>>
  ELSE IF path[i] = "." THEN SubSeq(path, i, Len(path))
  ELSE ExtScan(path, i - 1)

Ext(path) == ExtScan(path, Len(path))

\* the mutant of isAllowedFileType: the extension is compared as written
isAllowedFileType_caseSensitive(filename) ==
  LET ext == Ext(filename)
  IN  \E k \in 1..Len(allowedExtensions) : ext = allowedExtensions[k]

isAllowedFileType(filename) ==
  LET ext == ToLower(Ext(filename))
  IN  \E k \in 1..Len(allowedExtensions) : ext = allowedExtensions[k]

\* ------------------------------------------------------------- wall clock
\* Readings of the wall clock (year, month, day, hour, minute, second) that
\* time.Now() returns, in the order the clock shows them.
Instants ==
  << <<2024, 11, 6, 9, 5, 30>>,
     <<2024, 11, 6, 9, 5, 31>> >>

DigitChars == <<"0","1","2","3","4","5","6","7","8","9">>

\* the decimal digits of n, zero-padded to width w (the low w digits)
RECURSIVE Pad(_, _)
Pad(n, w) ==
  IF w = 0 THEN <<>> ELSE Append(Pad(n \div 10, w - 1), DigitChars[(n % 10) + 1])

\* the mutant of FormatTimestamp: layout "20060102-1504", no seconds
FormatTimestamp_noSeconds(t) ==
  Pad(t[1], 4) \o Pad(t[2], 2) \o Pad(t[3], 2) \o <<"-">> \o
  Pad(t[4], 2) \o Pad(t[5], 2)

\* time.Time.Format("20060102-150405")
FormatTimestamp(t) ==
  Pad(t[1], 4) \o Pad(t[2], 2) \o Pad(t[3], 2) \o <<"-">> \o
  Pad(t[4], 2) \o Pad(t[5], 2) \o Pad(t[6], 2)

\* -------------------------------------------------------- response writer
\* http.ResponseWriter: header is the header map, status 0 means the status
\* line is not written yet, sent is the header map as it went out with the
\* status line, body is the sequence of JSON documents written.
NewResponseWriter == [header |-> {}, status |-> 0, sent |-> {}, body |-> <<>>]

\* w.Header().Set(key, value)
HeaderSet(w, key, value) ==
  [w EXCEPT !.header = {h \in @ : h[1] # key} \cup {<<key, value>>}]

\* w.WriteHeader(code): the first call wins
WriteHeader(w, code) ==
  IF w.status = 0 THEN [w EXCEPT !.status = code, !.sent = w.header] ELSE w

\* json.NewEncoder(w).Encode(response): the first write sends status 200 when
\* no status was written; omitempty drops a nil Data and an empty Error.
Encode(w, response) ==
  LET w1 == WriteHeader(w, StatusOK)
      keys == {"success"}
              \cup (IF response.Data # {} THEN {"data"} ELSE {})
              \cup (IF response.Error # <<>> THEN {"error"} ELSE {})
  IN  [w1 EXCEPT !.body = Append(@, [keys |-> keys,
                                     success |-> response.Success,
                                     data |-> response.Data,
                                     error |-> response.Error])]

\* Response{Success, Data, Error}; Data is {} for a nil interface and {v}
\* for a value v; Error is <<>> for the empty string.
Response(success, data, error) ==
  [Success |-> success, Data |-> data, Error |-> error]

sendSuccessResponse(w, data) ==
  Encode(HeaderSet(w, "Content-Type", "application/json"),
         Response(TRUE, {data}, <<>>))

\* the mutant of sendErrorResponse: the status line is never written
sendErrorResponse_noWriteHeader(w, message, statusCode) ==
  Encode(HeaderSet(w, "Content-Type", "application/json"),
         Response(FALSE, {}, message))

sendErrorResponse(w, message, statusCode) ==
  Encode(WriteHeader(HeaderSet(w, "Content-Type", "application/json"),
                     statusCode),
         Response(FALSE, {}, message))

\* ------------------------------------------------------- HandleUpload, 1
\* A request as HandleUpload sees it: the method, whether ParseMultipartForm
\* succeeds, whether FormFile("file") finds the field, and the file header
\* (Filename, Size).  Size is the number of bytes of the file part, which is
\* also the length of the stream handed to UploadFile.
NoRequest ==
  [method |-> "", parseOK |-> FALSE, hasFile |-> FALSE, filename |-> <<>>,
   size |-> 0]

SetCORSHeaders(w) ==
  HeaderSet(HeaderSet(HeaderSet(w,
    "Access-Control-Allow-Origin", "*"),
    "Access-Control-Allow-Methods", "POST, OPTIONS"),
    "Access-Control-Allow-Headers", "Content-Type")

\* the mutant of HandleUploadChecks for the order of the file checks: the
\* extension is checked before the two size checks
HandleUploadChecks_extensionFirst(q) ==
  LET w == SetCORSHeaders(NewResponseWriter)
  IN  IF q.method = MethodOptions
      THEN [w |-> WriteHeader(w, StatusOK), next |-> "Preflight"]
      ELSE IF q.method # MethodPost
      THEN [w |-> sendErrorResponse(w, <<"Method not allowed">>,
                                    StatusMethodNotAllowed),
            next |-> "Rejected"]
      ELSE IF ~q.parseOK
      THEN [w |-> sendErrorResponse(w, <<"Failed to parse multipart form">>,
                                    StatusBadRequest),
            next |-> "Rejected"]
      ELSE IF ~q.hasFile
      THEN [w |-> sendErrorResponse(w,
                    <<"No file provided or invalid file field">>,
                    StatusBadRequest),
            next |-> "Rejected"]
      ELSE IF ~isAllowedFileType(q.filename)
      THEN [w |-> sendErrorResponse(w, <<"File type not allowed">>,
                                    StatusBadRequest),
            next |-> "Rejected"]
      ELSE IF q.size = 0
      THEN [w |-> sendErrorResponse(w, <<"Empty file not allowed">>,
                                    StatusBadRequest),
            next |-> "Rejected"]
      ELSE IF q.size > maxSize
      THEN [w |-> sendErrorResponse(w, <<"File too large (max 100MB)">>,
                                    StatusBadRequest),
            next |-> "Rejected"]
      ELSE [w |-> w, next |-> "Uploading"]

\* the mutant of HandleUploadChecks for the place of the method checks: the
\* body is parsed first
HandleUploadChecks_parseFirst(q) ==
  LET w == SetCORSHeaders(NewResponseWriter)
  IN  IF ~q.parseOK
      THEN [w |-> sendErrorResponse(w, <<"Failed to parse multipart form">>,
                                    StatusBadRequest),
            next |-> "Rejected"]
      ELSE IF q.method = MethodOptions
      THEN [w |-> WriteHeader(w, StatusOK), next |-> "Preflight"]
      ELSE IF q.method # MethodPost
      THEN [w |-> sendErrorResponse(w, <<"Method not allowed">>,
                                    StatusMethodNotAllowed),
            next |-> "Rejected"]
      ELSE IF ~q.hasFile
      THEN [w |-> sendErrorResponse(w,
                    <<"No file provided or invalid file field">>,
                    StatusBadRequest),
            next |-> "Rejected"]
      ELSE IF q.size = 0
      THEN [w |-> sendErrorResponse(w, <<"Empty file not allowed">>,
                                    StatusBadRequest),
            next |-> "Rejected"]
      ELSE IF q.size > maxSize
      THEN [w |-> sendErrorResponse(w, <<"File too large (max 100MB)">>,
                                    StatusBadRequest),
            next |-> "Rejected"]
      ELSE IF ~isAllowedFileType(q.filename)
      THEN [w |-> sendErrorResponse(w, <<"File type not allowed">>,
                                    StatusBadRequest),
            next |-> "Rejected"]
      ELSE [w |-> w, next |-> "Uploading"]

\* HandleUpload from its entry to the call of UploadFile: the response
\* writer it leaves and where the handler is next ("Preflight" and
\* "Rejected": it has returned; "Uploading": it calls UploadFile).
HandleUploadChecks(q) ==
  LET w == SetCORSHeaders(NewResponseWriter)
  IN  IF q.method = MethodOptions
      THEN [w |-> WriteHeader(w, StatusOK), next |-> "Preflight"]
      ELSE IF q.method # MethodPost
      THEN [w |-> sendErrorResponse(w, <<"Method not allowed">>,
                                    StatusMethodNotAllowed),
            next |-> "Rejected"]
      ELSE IF ~q.parseOK
      THEN [w |-> sendErrorResponse(w, <<"Failed to parse multipart form">>,
                                    StatusBadRequest),
            next |-> "Rejected"]
      ELSE IF ~q.hasFile
      THEN [w |-> sendErrorResponse(w,
                    <<"No file provided or invalid file field">>,
                    StatusBadRequest),
            next |-> "Rejected"]
      ELSE IF q.size = 0
      THEN [w |-> sendErrorResponse(w, <<"Empty file not allowed">>,
                                    StatusBadRequest),
            next |-> "Rejected"]
      ELSE IF q.size > maxSize
      THEN [w |-> sendErrorResponse(w, <<"File too large (max 100MB)">>,
                                    StatusBadRequest),
            next |-> "Rejected"]
      ELSE IF ~isAllowedFileType(q.filename)
      THEN [w |-> sendErrorResponse(w, <<"File type not allowed">>,
                                    StatusBadRequest),
            next |-> "Rejected"]
      ELSE [w |-> w, next |-> "Uploading"]

\* ------------------------------------------------------------- UploadFile
bucketName == <<"b","k","t">>

\* fmt.Sprintf("%s-%s", timestamp, fileName)
ObjectName(timestamp, fileName) == timestamp \o <<"-">> \o fileName

\* fmt.Sprintf("https://storage.googleapis.com/%s/%s", bucketName, objectName)
PublicURL(bucket, objectName) ==
  <<"https://storage.googleapis.com/">> \o bucket \o <<"/">> \o objectName

\* io.Copy(writer, reader) on a stream of len bytes.  outcome "ok": every
\* byte is written and EOF is reached; "readErr" / "writeErr": the copy stops
\* after the bytes written so far with that error.
IoCopy(len, outcome) ==
  IF outcome = "ok" THEN [n |-> len, err |-> <<>>]
  ELSE IF outcome = "readErr" THEN [n |-> len \div 2, err |-> <<"read error">>]
  ELSE [n |-> len \div 2, err |-> <<"write error">>]

\* the mutant of UploadFileReturn: Size is taken from a failed-copy count
UploadFileReturn_sizeOfHalf(objectName, cp) ==
  IF cp.err # <<>>
  THEN [result |-> {}, err |-> <<"failed to upload file: ">> \o cp.err]
  ELSE [result |-> {[FileName |-> objectName,
                     URL |-> PublicURL(bucketName, objectName),
                     Size |-> cp.n \div 2]},
        err |-> <<>>]

\* the return values of UploadFile after io.Copy returned cp: result is {}
\* for nil and {r} for &r, err is <<>> for nil.
UploadFileReturn(objectName, cp) ==
  IF cp.err # <<>>
  THEN [result |-> {}, err |-> <<"failed to upload file: ">> \o cp.err]
  ELSE [result |-> {[FileName |-> objectName,
                     URL |-> PublicURL(bucketName, objectName),
                     Size |-> cp.n]},
        err |-> <<>>]

\* the backend's object store after an object is committed under key
Put(objects, key, bytes, owner) ==
  {o \in objects : o.key # key}
    \cup {[key |-> key, bytes |-> bytes, owner |-> owner]}

\* ------------------------------------------------------- HandleUpload, 2
\* the mutant of HandleUploadResult for a retry: a failed upload sends the
\* handler back to the call of UploadFile
HandleUploadResult_retry(w, ret) ==
  IF ret.err # <<>>
  THEN [w |-> w, next |-> "Uploading"]
  ELSE [w |-> sendSuccessResponse(w, CHOOSE x \in ret.result : TRUE),
        next |-> "Uploaded"]

\* the mutant of HandleUploadResult for a missing return: after the error
\* response the handler goes on to the success response
HandleUploadResult_noReturn(w, ret) ==
  IF ret.err # <<>>
  THEN [w |-> Encode(HeaderSet(
                sendErrorResponse(w, <<"Upload failed: ">> \o ret.err,
                                  StatusInternalServerError),
                "Content-Type", "application/json"),
                Response(TRUE, ret.result, <<>>)),
        next |-> "UploadFailed"]
  ELSE [w |-> sendSuccessResponse(w, CHOOSE x \in ret.result : TRUE),
        next |-> "Uploaded"]

\* HandleUpload after UploadFile returned ret
HandleUploadResult(w, ret) ==
  IF ret.err # <<>>
  THEN [w |-> sendErrorResponse(w, <<"Upload failed: ">> \o ret.err,
                                StatusInternalServerError),
        next |-> "UploadFailed"]
  ELSE [w |-> sendSuccessResponse(w, CHOOSE x \in ret.result : TRUE),
        next |-> "Uploaded"]

\* ------------------------------------------------------------------ inputs
Methods == {MethodOptions, MethodPost, "GET"}

FileNames ==
  { <<"a",".","p","d","f">>, <<"a",".","e","x","e">> }

FileSizes == {0, 1, maxSize, maxSize + 1}

\* the requests of Spec
Requests ==
  [method : Methods \ {MethodPost}, parseOK : BOOLEAN, hasFile : {FALSE},
   filename : {<<>>}, size : {0}]
  \cup
  [method : {MethodPost}, parseOK : {FALSE}, hasFile : {FALSE},
   filename : {<<>>}, size : {0}]
  \cup
  [method : {MethodPost}, parseOK : {TRUE}, hasFile : {FALSE},
   filename : {<<>>}, size : {0}]
  \cup
  [method : {MethodPost}, parseOK : {TRUE}, hasFile : {TRUE},
   filename : FileNames, size : FileSizes]

\* what the backend does with one write: the copy succeeds and Close commits
\* the object; the copy succeeds and Close reports the failure of the write;
\* the copy fails on a write, and so does Close; the copy fails on a read and
\* Close commits the bytes written so far.
BackendOutcomes ==
  { [copy |-> "ok", closeOK |-> TRUE],
    [copy |-> "ok", closeOK |-> FALSE],
    [copy |-> "writeErr", closeOK |-> FALSE],
    [copy |-> "readErr", closeOK |-> TRUE] }

\* ------------------------------------------------------------ main, config
\* the environment of the process: GCS_BUCKET_NAME, GOOGLE_CLOUD_PROJECT, PORT
Environments ==
  [bucket : {"", "my-bucket"}, project : {"", "my-project"},
   port : {"", "9090"}]

\* the environment with none of the variables set
NoEnvironment == [bucket |-> "", project |-> "", port |-> ""]

\* config.getEnv: the value of the variable, the default when it is empty
getEnv(value, defaultValue) == IF value # "" THEN value ELSE defaultValue

\* config.Load
Load(env) ==
  [Port |-> getEnv(env.port, "8080"),
   BucketName |-> getEnv(env.bucket, ""),
   ProjectID |-> getEnv(env.project, "")]

\* the mutant of ConfigFatal: the project id is not checked
ConfigFatal_noProjectCheck(cfg) ==
  IF cfg.BucketName = ""
  THEN "GCS_BUCKET_NAME environment variable is required"
  ELSE ""

\* main's checks of the configuration: the message of the log.Fatal that
\* ends the process, "" when the checks pass
ConfigFatal(cfg) ==
  IF cfg.BucketName = ""
  THEN "GCS_BUCKET_NAME environment variable is required"
  ELSE IF cfg.ProjectID = ""
  THEN "GOOGLE_CLOUD_PROJECT environment variable is required"
  ELSE ""

\* the positions of a handler between its call and its return
InFlight == {"Pending", "Uploading", "Writing", "Returned"}

\* the mutant of ShutdownDrained: Shutdown returns nil without waiting for
\* the handlers
ShutdownDrained_noWait(handlers) == TRUE

\* server.Shutdown returns nil once no connection is active, that is once no
\* handler is in flight
ShutdownDrained(handlers) ==
  \A r \in DOMAIN handlers : handlers[r] \notin InFlight

\* The process: pc is where main is ("start", "configured", "ready",
\* "waiting" for the signal, "shutdown" inside server.Shutdown, "drained"
\* after it returned nil, "closed" after the deferred storageClient.Close,
\* "exited" after main returned, "fatal" after log.Fatal), fatal the message
\* of that log.Fatal, cfg the configuration, client the storage client ("none", "failed", "open",
\* "closed"), server the HTTP server ("none", "starting", "listening",
\* "stopped").
ServingProcess ==
  [pc |-> "waiting", fatal |-> "",
   env |-> [bucket |-> "my-bucket", project |-> "my-project", port |-> ""],
   cfg |-> Load([bucket |-> "my-bucket", project |-> "my-project",
                 port |-> ""]),
   client |-> "open", server |-> "listening"]

\* ------------------------------------------------------------------- state
VARIABLES
  clock,    \* index in Instants of the wall clock's reading
  pc,       \* per request: where its handler is
  request,  \* per request: the request
  resp,     \* per request: its http.ResponseWriter
  calls,    \* per request: the number of calls of UploadFile
  upl,      \* per request: UploadFile's reading of the clock, its
            \* objectName, its return values, and whether writer.Close
            \* committed the object
  objects,  \* the backend's bucket: the committed objects
  proc      \* the process: main, the storage client and the HTTP server

vars == <<clock, pc, request, resp, calls, upl, objects, proc>>

NoUpload ==
  [now |-> <<>>, objectName |-> <<>>, result |-> {}, err |-> <<>>,
   committed |-> FALSE]

\* a handler runs as long as the process does
Alive == proc.pc \notin {"fatal", "exited"}

\* no request is in yet
NoRequests ==
  /\ clock = 1
  /\ pc = [r \in Reqs |-> "idle"]
  /\ request = [r \in Reqs |-> NoRequest]
  /\ resp = [r \in Reqs |-> NewResponseWriter]
  /\ calls = [r \in Reqs |-> 0]
  /\ upl = [r \in Reqs |-> NoUpload]
  /\ objects = {}

\* the process is up: main waits for the signal and the server listens
Init ==
  /\ NoRequests
  /\ proc = ServingProcess

\* the wall clock moves on to its next reading
Tick ==
  /\ clock < Len(Instants)
  /\ clock' = clock + 1
  /\ UNCHANGED <<pc, request, resp, calls, upl, objects, proc>>

\* the server hands request q to HandleUpload
Arrive(r, q) ==
  /\ proc.server = "listening"
  /\ Alive
  /\ pc[r] = "idle"
  /\ pc' = [pc EXCEPT ![r] = "Pending"]
  /\ request' = [request EXCEPT ![r] = q]
  /\ UNCHANGED <<clock, resp, calls, upl, objects, proc>>

\* HandleUpload up to the call of UploadFile
Validate(r) ==
  /\ Alive
  /\ pc[r] = "Pending"
  /\ LET h == HandleUploadChecks(request[r])
     IN  /\ resp' = [resp EXCEPT ![r] = h.w]
         /\ pc' = [pc EXCEPT ![r] = h.next]
  /\ UNCHANGED <<clock, request, calls, upl, objects, proc>>

\* UploadFile is called: it reads the clock, names the object and creates
\* the writer
UploadFileBegin(r) ==
  /\ Alive
  /\ pc[r] = "Uploading"
  /\ calls' = [calls EXCEPT ![r] = @ + 1]
  /\ upl' = [upl EXCEPT ![r] =
               [NoUpload EXCEPT
                  !.now = Instants[clock],
                  !.objectName =
                    ObjectName(FormatTimestamp(Instants[clock]),
                               request[r].filename)]]
  /\ pc' = [pc EXCEPT ![r] = "Writing"]
  /\ UNCHANGED <<clock, request, resp, objects, proc>>

\* UploadFile copies the stream and returns; the deferred writer.Close runs
\* on the way out and its error is dropped
UploadFileEnd(r) ==
  /\ Alive
  /\ pc[r] = "Writing"
  /\ \E b \in BackendOutcomes :
       LET cp == IoCopy(request[r].size, b.copy)
           ret == UploadFileReturn(upl[r].objectName, cp)
       IN  /\ upl' = [upl EXCEPT ![r].result = ret.result,
                                 ![r].err = ret.err,
                                 ![r].committed = b.closeOK]
           /\ objects' = IF b.closeOK
                         THEN Put(objects, upl[r].objectName, cp.n, r)
                         ELSE objects
  /\ pc' = [pc EXCEPT ![r] = "Returned"]
  /\ UNCHANGED <<clock, request, resp, calls, proc>>

\* HandleUpload after UploadFile returned
Respond(r) ==
  /\ Alive
  /\ pc[r] = "Returned"
  /\ LET h == HandleUploadResult(resp[r], upl[r])
     IN  /\ resp' = [resp EXCEPT ![r] = h.w]
         /\ pc' = [pc EXCEPT ![r] = h.next]
  /\ UNCHANGED <<clock, request, calls, upl, objects, proc>>

Next ==
  \/ Tick
  \/ \E r \in Reqs, q \in Requests : Arrive(r, q)
  \/ \E r \in Reqs : Validate(r)
  \/ \E r \in Reqs : UploadFileBegin(r)
  \/ \E r \in Reqs : UploadFileEnd(r)
  \/ \E r \in Reqs : Respond(r)

Spec == Init /\ [][Next]_vars

\* -------------------------------------------------------------------- main
\* the requests of SpecMain
MainRequests ==
  { [method |-> "GET", parseOK |-> TRUE, hasFile |-> FALSE,
     filename |-> <<>>, size |-> 0],
    [method |-> MethodPost, parseOK |-> TRUE, hasFile |-> TRUE,
     filename |-> <<"a",".","p","d","f">>, size |-> 1] }

\* the process starts: nothing is loaded, created or listening
InitMain ==
  /\ NoRequests
  /\ proc \in [pc : {"start"}, fatal : {""}, env : Environments, cfg : {Load(NoEnvironment)},
               client : {"none"}, server : {"none"}]

\* main loads the configuration and checks the bucket name and project id
LoadConfig ==
  /\ proc.pc = "start"
  /\ LET cfg == Load(proc.env)
     IN  proc' = [proc EXCEPT
                    !.cfg = cfg,
                    !.fatal = ConfigFatal(cfg),
                    !.pc = IF ConfigFatal(cfg) # "" THEN "fatal"
                           ELSE "configured"]
  /\ UNCHANGED <<clock, pc, request, resp, calls, upl, objects>>

\* main creates the storage client, or dies when that fails
NewClient ==
  /\ proc.pc = "configured"
  /\ \E ok \in BOOLEAN :
       proc' = IF ok
               THEN [proc EXCEPT !.client = "open", !.pc = "ready"]
               ELSE [proc EXCEPT !.client = "failed", !.pc = "fatal",
                                 !.fatal = "Failed to create storage client"]
  /\ UNCHANGED <<clock, pc, request, resp, calls, upl, objects>>

\* main builds the handler, routes and server, starts the server goroutine
\* and waits for the signal
StartServer ==
  /\ proc.pc = "ready"
  /\ proc' = [proc EXCEPT !.server = "starting", !.pc = "waiting"]
  /\ UNCHANGED <<clock, pc, request, resp, calls, upl, objects>>

\* ListenAndServe binds the port and serves
Listen ==
  /\ Alive
  /\ proc.server = "starting"
  /\ proc' = [proc EXCEPT !.server = "listening"]
  /\ UNCHANGED <<clock, pc, request, resp, calls, upl, objects>>

\* ListenAndServe returns an error other than ErrServerClosed: log.Fatalf
\* in the server goroutine ends the process
ServerFails ==
  /\ Alive
  /\ proc.server \in {"starting", "listening"}
  /\ proc' = [proc EXCEPT !.server = "stopped", !.pc = "fatal",
                          !.fatal = "Server failed to start"]
  /\ UNCHANGED <<clock, pc, request, resp, calls, upl, objects>>

\* SIGINT or SIGTERM: main calls server.Shutdown, which closes the listener
Signal ==
  /\ proc.pc = "waiting"
  /\ proc' = [proc EXCEPT !.server = "stopped", !.pc = "shutdown"]
  /\ UNCHANGED <<clock, pc, request, resp, calls, upl, objects>>

\* server.Shutdown returns nil
ShutdownReturns ==
  /\ proc.pc = "shutdown"
  /\ ShutdownDrained(pc)
  /\ proc' = [proc EXCEPT !.pc = "drained"]
  /\ UNCHANGED <<clock, pc, request, resp, calls, upl, objects>>

\* server.Shutdown returns the context's error after 30 seconds: log.Fatalf
ShutdownTimeout ==
  /\ proc.pc = "shutdown"
  /\ ~ShutdownDrained(pc)
  /\ proc' = [proc EXCEPT !.pc = "fatal",
                          !.fatal = "Server forced to shutdown"]
  /\ UNCHANGED <<clock, pc, request, resp, calls, upl, objects>>

\* main returns: the deferred storageClient.Close runs
DeferredClose ==
  /\ proc.pc = "drained"
  /\ proc' = [proc EXCEPT !.client = "closed", !.pc = "closed"]
  /\ UNCHANGED <<clock, pc, request, resp, calls, upl, objects>>

\* the process ends after main returned
Exit ==
  /\ proc.pc = "closed"
  /\ proc' = [proc EXCEPT !.pc = "exited"]
  /\ UNCHANGED <<clock, pc, request, resp, calls, upl, objects>>

NextMain ==
  \/ LoadConfig
  \/ NewClient
  \/ StartServer
  \/ Listen
  \/ ServerFails
  \/ Signal
  \/ ShutdownReturns
  \/ ShutdownTimeout
  \/ DeferredClose
  \/ Exit
  \/ \E r \in Reqs, q \in MainRequests : Arrive(r, q)
  \/ \E r \in Reqs : Validate(r)
  \/ \E r \in Reqs : UploadFileBegin(r)
  \/ \E r \in Reqs : UploadFileEnd(r)
  \/ \E r \in Reqs : Respond(r)

SpecMain == InitMain /\ [][NextMain]_vars

\* ---------------------------------------------- file names of SpecExt
ExtAlphabet == {".", "/", "g", "z", "G", "x"}

\* every string over ExtAlphabet of at most MaxNameLen characters
ShortNames == UNION {[1..k -> ExtAlphabet] : k \in 0..MaxNameLen}

UpperChar(c) ==
  IF \E i \in 1..Len(LowerChars) : LowerChars[i] = c
  THEN UpperChars[CHOOSE i \in 1..Len(LowerChars) : LowerChars[i] = c]
  ELSE c

ToUpper(s) == [i \in 1..Len(s) |-> UpperChar(s[i])]

\* upper case at the odd positions only
MixedCase(s) ==
  [i \in 1..Len(s) |-> IF i % 2 = 1 THEN UpperChar(s[i]) ELSE s[i]]

Stems ==
  { <<>>, <<"t","e","s","t">>, <<"a",".","b">>,
    <<"d",".","p","d","f","/","f">> }

Endings ==
  {allowedExtensions[k] : k \in 1..Len(allowedExtensions)}
  \cup {ToUpper(allowedExtensions[k]) : k \in 1..Len(allowedExtensions)}
  \cup {MixedCase(allowedExtensions[k]) : k \in 1..Len(allowedExtensions)}
  \cup {Tail(allowedExtensions[k]) : k \in 1..Len(allowedExtensions)}
  \cup {Append(allowedExtensions[k], "x") : k \in 1..Len(allowedExtensions)}
  \cup {Append(allowedExtensions[k], ".") : k \in 1..Len(allowedExtensions)}
  \cup {Append(allowedExtensions[k], "/") : k \in 1..Len(allowedExtensions)}
  \cup {allowedExtensions[k] \o <<".","e","x","e">> :
          k \in 1..Len(allowedExtensions)}
  \cup { <<".","e","x","e">>, <<".","x","y","z">>, <<".">>, <<>>,
         <<".","t","a","r",".","g","z">>, <<".","p","d">> }

LongNames == {stem \o e : stem \in Stems, e \in Endings}

ExtRequests ==
  [method : {MethodPost}, parseOK : {TRUE}, hasFile : {TRUE},
   filename : ShortNames \cup LongNames, size : {1}]

\* one POST of a one-byte file, under any of the file names, up to the call
\* of UploadFile
NextExt ==
  \/ \E q \in ExtRequests : Arrive(1, q)
  \/ Validate(1)

SpecExt == Init /\ [][NextExt]_vars

\* ------------------------------------------------- vocabulary of the claims
Handled(r) == pc[r] \notin {"idle", "Pending"}

IsFilePost(q) == q.method = "POST" /\ q.parseOK /\ q.hasFile

InUpload(r) ==
  pc[r] \in {"Uploading", "Writing", "Returned", "Uploaded", "UploadFailed"}

\* the response is one error envelope with this status and message
ErrorIs(r, status, message) ==
  /\ resp[r].status = status
  /\ Len(resp[r].body) = 1
  /\ resp[r].body[1].success = FALSE
  /\ resp[r].body[1].error = message

\* the 19 extensions of the allow-list
AllowList ==
  { <<".","p","d","f">>, <<".","d","o","c">>, <<".","d","o","c","x">>,
    <<".","t","x","t">>, <<".","r","t","f">>, <<".","j","p","g">>,
    <<".","j","p","e","g">>, <<".","p","n","g">>, <<".","g","i","f">>,
    <<".","b","m","p">>, <<".","z","i","p">>, <<".","r","a","r">>,
    <<".","t","a","r">>, <<".","g","z">>, <<".","c","s","v">>,
    <<".","x","l","s">>, <<".","x","l","s","x">>, <<".","p","p","t">>,
    <<".","p","p","t","x">> }

\* the trailing dot-segment of f, lower-cased, is in the allow-list
InAllowList(f) ==
  \E i \in 1..Len(f) :
    /\ f[i] = "."
    /\ \A j \in (i + 1)..Len(f) : f[j] # "."
    /\ ToLower(SubSeq(f, i, Len(f))) \in AllowList

\* ---------------------------------------------------------------- claims
\* C1: on a POST with a file field the size checks decide first, whatever
\* the file name: size 0 is answered 400 "Empty file not allowed", a size
\* above 100*1024*1024 is answered 400 "File too large ...", and a size in
\* 1..100*1024*1024 with an allowed extension reaches the backend upload.
C1_SizeChecks ==
  \A r \in Reqs :
    (Handled(r) /\ IsFilePost(request[r])) =>
      LET q == request[r]
      IN  /\ q.size = 0 =>
                /\ pc[r] = "Rejected"
                /\ ErrorIs(r, 400, <<"Empty file not allowed">>)
          /\ q.size > 100 * 1024 * 1024 =>
                /\ pc[r] = "Rejected"
                /\ ErrorIs(r, 400, <<"File too large (max 100MB)">>)
          /\ (q.size > 0 /\ q.size <= 100 * 1024 * 1024
                /\ InAllowList(q.filename)) =>
                /\ InUpload(r)
                /\ pc[r] # "Uploading" => calls[r] = 1

C1_Witness ==
  \E r1, r2 \in Reqs :
    /\ pc[r1] = "Rejected" /\ request[r1].size = 0
    /\ IsFilePost(request[r1]) /\ ~InAllowList(request[r1].filename)
    /\ pc[r2] = "Uploaded" /\ request[r2].size = 100 * 1024 * 1024

\* C2: isAllowedFileType is true exactly for the file names whose trailing
\* dot-segment, lower-cased, is one of the 19 extensions; a POST of any other
\* file name is answered 400 "File type not allowed", and one of an allowed
\* name passes on to the upload.
C2_AllowList ==
  \A r \in Reqs :
    (Handled(r) /\ IsFilePost(request[r]) /\ request[r].size > 0
       /\ request[r].size <= 100 * 1024 * 1024) =>
      LET f == request[r].filename
      IN  /\ isAllowedFileType(f) <=> InAllowList(f)
          /\ InAllowList(f) => InUpload(r)
          /\ ~InAllowList(f) =>
                /\ pc[r] = "Rejected"
                /\ ErrorIs(r, 400, <<"File type not allowed">>)

C2_Witness ==
  /\ pc[1] = "Uploading"
  /\ request[1].filename = <<"t","e","s","t",".","P","D","F">>

\* C3: UploadFile is called zero times for a request that is rejected before
\* the upload and exactly once for one that passed validation, also when the
\* call fails.
C3_OneWrite ==
  \A r \in Reqs :
    /\ calls[r] <= 1
    /\ pc[r] \in {"idle", "Pending", "Preflight", "Rejected", "Uploading"}
         => calls[r] = 0
    /\ pc[r] \in {"Writing", "Returned", "Uploaded", "UploadFailed"}
         => calls[r] = 1

C3_Witness ==
  \E r1, r2 \in Reqs :
    /\ pc[r1] = "UploadFailed" /\ calls[r1] = 1
    /\ pc[r2] = "Rejected" /\ calls[r2] = 0

\* C4: an upload never ends in partial success: when UploadFile has returned,
\* either it returned a result and the backend write was completed and
\* committed, or it returned an error and no result (and the handler answers
\* 500).
C4_NoPartialSuccess ==
  \A r \in Reqs :
    pc[r] \in {"Returned", "Uploaded", "UploadFailed"} =>
      \/ /\ upl[r].result # {}
         /\ upl[r].err = <<>>
         /\ upl[r].committed
      \/ /\ upl[r].result = {}
         /\ upl[r].err # <<>>
         /\ pc[r] # "Uploaded"
         /\ pc[r] = "UploadFailed" => resp[r].status = 500

\* C5: two distinct uploads for which UploadFile returned a result were
\* written under different object keys.
C5_UniqueKeys ==
  \A r1, r2 \in Reqs :
    (r1 # r2 /\ upl[r1].result # {} /\ upl[r2].result # {}) =>
      upl[r1].objectName # upl[r2].objectName

\* the three CORS headers
CORSHeaders ==
  { <<"Access-Control-Allow-Origin", "*">>,
    <<"Access-Control-Allow-Methods", "POST, OPTIONS">>,
    <<"Access-Control-Allow-Headers", "Content-Type">> }

\* the states of the response mapping
SpecState(p) ==
  IF p \in {"Uploading", "Writing", "Returned"} THEN "Uploading" ELSE p

TerminalStates == {"Rejected", "Uploaded", "UploadFailed"}

\* what a POST request's state says about its response
C6_StateOK(p, q, w) ==
  /\ p \in {"Pending", "Uploading", "Writing", "Returned"} \cup TerminalStates
  /\ p \notin TerminalStates => (w.status = 0 /\ w.body = <<>>)
  /\ p \in TerminalStates => (w.status # 0 /\ Len(w.body) = 1)
  /\ p = "Rejected" =>
       (w.status = 400 /\ ~w.body[1].success /\ w.body[1].error # <<>>)
  /\ p = "Uploaded" => (w.status = 200 /\ w.body[1].success)
  /\ p = "UploadFailed" =>
       /\ w.status = 500
       /\ ~w.body[1].success
       /\ w.body[1].error[1] = "Upload failed: "
  /\ p \in {"Uploaded", "UploadFailed"} =>
       /\ IsFilePost(q)
       /\ q.size > 0 /\ q.size <= 100 * 1024 * 1024
       /\ InAllowList(q.filename)

\* one step of a POST request through the response mapping
C6_Step(r) ==
  LET a == SpecState(pc[r])
      b == SpecState(pc'[r])
  IN  /\ C6_StateOK(pc'[r], request'[r], resp'[r])
      /\ a \in TerminalStates =>
           (pc'[r] = pc[r] /\ resp'[r] = resp[r] /\ request'[r] = request[r])
      /\ a # b =>
           \/ a = "idle" /\ b = "Pending"
           \/ a = "Pending" /\ b \in {"Rejected", "Uploading"}
           \/ a = "Uploading" /\ b \in {"Uploaded", "UploadFailed"}

\* C6: a POST request moves from Pending to exactly one of Rejected (400),
\* Uploaded (200) and UploadFailed (500, "Upload failed: ..."), the last two
\* only through Uploading, stays there, and gets exactly one response.
C6_OneTerminalState ==
  [][\A r \in Reqs : request'[r].method = "POST" => C6_Step(r)]_vars

C6_Witness ==
  \E r1, r2 \in Reqs :
    /\ pc[r1] = "Uploaded" /\ Len(resp[r1].body) = 1
    /\ pc[r2] = "UploadFailed" /\ Len(resp[r2].body) = 1

\* C7: every envelope written has exactly one of data and error, as the
\* success flag says: success goes with data, no error and status 200;
\* failure goes with an error, no data and status 400, 405 or 500.
C7_Envelope ==
  \A r \in Reqs :
    \A i \in 1..Len(resp[r].body) :
      LET e == resp[r].body[i]
      IN  /\ e.success =>
                /\ "data" \in e.keys /\ e.data # {}
                /\ "error" \notin e.keys
                /\ resp[r].status = 200
          /\ ~e.success =>
                /\ "error" \in e.keys /\ e.error # <<>>
                /\ "data" \notin e.keys
                /\ resp[r].status \in {400, 405, 500}

C7_Witness ==
  \E r1, r2 \in Reqs :
    /\ Len(resp[r1].body) = 1 /\ resp[r1].body[1].success
    /\ Len(resp[r2].body) = 1 /\ ~resp[r2].body[1].success
    /\ resp[r2].status = 405

\* C8: the size in the result and in the success envelope of an upload is
\* the number of bytes of the stream that was uploaded.
C8_SizeRoundTrip ==
  \A r \in Reqs :
    /\ upl[r].result # {} =>
         \A d \in upl[r].result : d.Size = request[r].size
    /\ pc[r] = "Uploaded" =>
         /\ resp[r].body[1].data # {}
         /\ \A d \in resp[r].body[1].data : d.Size = request[r].size

C8_Witness ==
  \E r \in Reqs :
    /\ pc[r] = "Uploaded"
    /\ request[r].size = 100 * 1024 * 1024
    /\ \E d \in resp[r].body[1].data : d.Size = 100 * 1024 * 1024

\* the number a sequence of digit characters writes
RECURSIVE DigitsValue(_)
DigitsValue(ds) ==
  IF ds = <<>> THEN 0
  ELSE 10 * DigitsValue(SubSeq(ds, 1, Len(ds) - 1))
       + ((CHOOSE i \in 1..10 : DigitChars[i] = ds[Len(ds)]) - 1)

\* key is YYYYMMDD-HHMMSS of the reading t, a hyphen, and name
KeyIs(key, t, name) ==
  /\ Len(key) = 16 + Len(name)
  /\ \A i \in (1..15) \ {9} : \E k \in 1..10 : DigitChars[k] = key[i]
  /\ key[9] = "-" /\ key[16] = "-"
  /\ DigitsValue(SubSeq(key, 1, 4)) = t[1]
  /\ DigitsValue(SubSeq(key, 5, 6)) = t[2]
  /\ DigitsValue(SubSeq(key, 7, 8)) = t[3]
  /\ DigitsValue(SubSeq(key, 10, 11)) = t[4]
  /\ DigitsValue(SubSeq(key, 12, 13)) = t[5]
  /\ DigitsValue(SubSeq(key, 14, 15)) = t[6]
  /\ SubSeq(key, 17, Len(key)) = name

\* C9: the object key is "{YYYYMMDD-HHMMSS}-{filename}" of the clock's
\* reading at the call and the file name as given; UploadFile returns it as
\* fileName and in the URL "https://storage.googleapis.com/{bucket}/{key}";
\* two uploads of one file name at different readings have different keys.
C9_ObjectKey ==
  \A r \in Reqs :
    pc[r] \in {"Writing", "Returned", "Uploaded", "UploadFailed"} =>
      /\ KeyIs(upl[r].objectName, upl[r].now, request[r].filename)
      /\ \A d \in upl[r].result :
           /\ d.FileName = upl[r].objectName
           /\ d.URL = <<"https://storage.googleapis.com/">> \o bucketName
                        \o <<"/">> \o upl[r].objectName
      /\ \A r2 \in Reqs :
           (pc[r2] \in {"Writing", "Returned", "Uploaded", "UploadFailed"}
              /\ request[r2].filename = request[r].filename
              /\ upl[r2].now # upl[r].now) =>
             upl[r2].objectName # upl[r].objectName

C9_Witness ==
  \E r1, r2 \in Reqs :
    /\ pc[r1] = "Uploaded" /\ pc[r2] = "Uploaded"
    /\ request[r1].filename = request[r2].filename
    /\ upl[r1].now = Instants[1] /\ upl[r2].now = Instants[2]

\* C10: the method decides before the body is parsed: OPTIONS is answered
\* 200 with an empty body, a method other than POST and OPTIONS is answered
\* 405 with an error envelope; every response carries the three CORS headers.
C10_MethodAndCORS ==
  \A r \in Reqs :
    Handled(r) =>
      /\ request[r].method = "OPTIONS" =>
           (pc[r] = "Preflight" /\ resp[r].status = 200
              /\ resp[r].body = <<>>)
      /\ request[r].method \notin {"POST", "OPTIONS"} =>
           /\ pc[r] = "Rejected"
           /\ resp[r].status = 405
           /\ Len(resp[r].body) = 1
           /\ ~resp[r].body[1].success
      /\ resp[r].status # 0 => CORSHeaders \subseteq resp[r].sent

C10_Witness ==
  \E r1, r2 \in Reqs :
    /\ request[r1].method = "OPTIONS" /\ ~request[r1].parseOK
    /\ pc[r1] = "Preflight"
    /\ request[r2].method = "GET" /\ ~request[r2].parseOK
    /\ resp[r2].status = 405

\* a startup configuration error: the bucket name or the project id is
\* empty, or the storage client could not be constructed
StartupError ==
  \/ proc.env.bucket = ""
  \/ proc.env.project = ""
  \/ proc.client = "failed"

\* C11: after a startup configuration error (empty bucket name, empty project
\* id, storage client not constructed) main ends fatally before the server
\* starts: the server never listens and no request is ever handled.
C11_NoServingAfterStartupError ==
  StartupError =>
    /\ proc.pc \in {"start", "fatal"}
    /\ proc.pc = "fatal" =>
         proc.fatal \in
           {"GCS_BUCKET_NAME environment variable is required",
            "GOOGLE_CLOUD_PROJECT environment variable is required",
            "Failed to create storage client"}
    /\ proc.client = "failed" => proc.pc = "fatal"
    /\ proc.server = "none"
    /\ \A r \in Reqs : pc[r] = "idle" /\ resp[r] = NewResponseWriter

C11_Witness ==
  /\ proc.pc = "fatal"
  /\ proc.fatal = "GOOGLE_CLOUD_PROJECT environment variable is required"
  /\ proc.env.bucket # "" /\ proc.env.project = ""
  /\ proc.server = "none"

\* C12: the storage client is closed only after server.Shutdown returned nil,
\* with no handler in flight; on the other exit paths (server failure,
\* shutdown timeout) the process ends with the client not closed.
C12_NoCloseInFlight ==
  /\ proc.client = "closed" =>
       /\ proc.pc \in {"closed", "exited"}
       /\ proc.server = "stopped"
       /\ \A r \in Reqs : pc[r] \notin InFlight
  /\ (\E r \in Reqs : pc[r] \in InFlight) => proc.client \in {"open"}
  /\ proc.pc = "fatal" => proc.client # "closed"

C12_Witness ==
  /\ proc.client = "closed"
  /\ \E r1, r2 \in Reqs : pc[r1] = "Uploaded" /\ pc[r2] = "UploadFailed"

====
